---------------------------- MODULE Spec2Model ----------------------------
(***************************************************************************)
(* A model of lmwrapper's SQLite-backed prediction cache                   *)
(* (src/lmwrapper/sqlcache.py): the two-level key derivation, the three    *)
(* tables, and the add / get / delete protocol run by concurrent callers   *)
(* that share one database file.                                           *)
(*                                                                         *)
(* Strings whose characters matter (prompt texts, keys) are sequences of   *)
(* one-character strings, so that slicing and lengths are those of the     *)
(* code.  Python values are records carrying their type and their literal  *)
(* text, so that str() and repr() are computed as Python computes them.    *)
(***************************************************************************)
EXTENDS Integers, Sequences, FiniteSets, TLC

(***************************************************************************)
(* Python values.                                                          *)
(***************************************************************************)
PyNone == [ty |-> "NoneType", lit |-> "None", items |-> <<>>]
PyInt(n) == [ty |-> "int", lit |-> ToString(n), items |-> <<>>]
\* a float with one decimal digit: PyFloat(0, 7) is 0.7
PyFloat(whole, tenth) ==
    [ty |-> "float", lit |-> ToString(whole) \o "." \o ToString(tenth), items |-> <<>>]
PyBool(b) == [ty |-> "bool", lit |-> IF b THEN "True" ELSE "False", items |-> <<>>]
PyStr(s) == [ty |-> "str", lit |-> s, items |-> <<>>]
\* a list of strings
PyList(seq) == [ty |-> "list", lit |-> "", items |-> seq]
\* an object the cache only tests against None
PyObj(name) == [ty |-> "ModelInternalsRequest", lit |-> name, items |-> <<>>]

RECURSIVE JoinQuoted(_)
JoinQuoted(seq) ==
    IF seq = <<>> THEN ""
    ELSE "'" \o Head(seq) \o "'"
         \o (IF Len(seq) > 1 THEN ", " ELSE "") \o JoinQuoted(Tail(seq))

\* Python's str(v)
Str(v) == IF v.ty = "list" THEN "[" \o JoinQuoted(v.items) \o "]" ELSE v.lit

\* Python's repr(v), which str(dict) applies to every value
Repr(v) == IF v.ty = "str" THEN "'" \o v.lit \o "'" ELSE Str(v)

(***************************************************************************)
(* Sequences of characters.                                                *)
(***************************************************************************)
Min(a, b) == IF a < b THEN a ELSE b

RECURSIVE Concat(_)
Concat(chars) == IF chars = <<>> THEN "" ELSE Head(chars) \o Concat(Tail(chars))

Reverse(s) == [i \in 1..Len(s) |-> s[Len(s) + 1 - i]]

\* s[:k] for 0 <= k
Prefix(s, k) == SubSeq(s, 1, Min(k, Len(s)))

\* s[-k:] for 0 <= k <= len(s); Python reads s[-0:] as s[0:], the whole of s
Suffix(s, k) == IF k = 0 THEN s ELSE SubSeq(s, Len(s) - k + 1, Len(s))

Pad(n) == [i \in 1..n |-> "_"]

(***************************************************************************)
(* The digest.  xxh64 gives 8 bytes, whose base64 text is 11 characters    *)
(* that carry the 64 bits and one "=".  The digest is taken to be          *)
(* injective: each of the 11 characters is a token naming the hashed       *)
(* string and its position.                                                *)
(***************************************************************************)
_digest_b64_len == 12

b64_xxh64(s) ==
    [i \in 1.._digest_b64_len |->
        IF i = _digest_b64_len THEN "=" ELSE "#" \o ToString(i) \o "<" \o s \o ">"]

(***************************************************************************)
(* Key derivation.                                                         *)
(***************************************************************************)
_text_hash_len == 32
_text_and_sample_hash_len == 43

\* a variant that leaves a short key unpadded
prompt_to_text_hash_unpadded(prompt) ==
    LET text == prompt.text
        text_hash == b64_xxh64(Concat(text))
        remaining_chars == _text_hash_len - Len(text_hash)
        start_chars == Prefix(text, Min(remaining_chars \div 3, Len(text)))
        end_chars == Suffix(text, Min(remaining_chars - Len(start_chars), Len(text)))
    IN  start_chars \o Reverse(end_chars) \o text_hash

prompt_to_text_hash(prompt) ==
    LET text == prompt.text
        text_hash == b64_xxh64(Concat(text))
        remaining_chars == _text_hash_len - Len(text_hash)
        start_chars == Prefix(text, Min(remaining_chars \div 3, Len(text)))
        end_chars == Suffix(text, Min(remaining_chars - Len(start_chars), Len(text)))
        spliced == start_chars \o Reverse(end_chars) \o text_hash
    IN  IF Len(spliced) < _text_hash_len
        THEN spliced \o Pad(_text_hash_len - Len(spliced))
        ELSE spliced

ParamColumns ==
    <<"model_key", "max_tokens", "temperature", "top_p", "presence_penalty",
      "frequency_penalty", "add_bos_token", "echo", "add_special_tokens",
      "has_internals_request", "stop">>

prompt_to_only_sample_class_dict(prompt, model_key) ==
    [model_key |-> PyStr(model_key),
     max_tokens |-> prompt.max_tokens,
     temperature |-> prompt.temperature,
     top_p |-> prompt.top_p,
     presence_penalty |-> prompt.presence_penalty,
     frequency_penalty |-> prompt.frequency_penalty,
     add_bos_token |-> PyStr(Str(prompt.add_bos_token)),
     echo |-> prompt.echo,
     add_special_tokens |-> prompt.add_special_tokens,
     has_internals_request |-> PyBool(prompt.model_internals_request # PyNone),
     stop |-> PyStr(Str(prompt.stop))]

\* Python's str(d) of a dict in insertion order
RECURSIVE DictItems(_, _)
DictItems(d, cols) ==
    IF cols = <<>> THEN ""
    ELSE "'" \o Head(cols) \o "': " \o Repr(d[Head(cols)])
         \o (IF Len(cols) > 1 THEN ", " ELSE "") \o DictItems(d, Tail(cols))

StrDict(d) == "{" \o DictItems(d, ParamColumns) \o "}"

\* a variant that digests the prompt's text in place of the parameter dict
prompt_to_sample_params_hash_of_text(prompt, model_key) ==
    SubSeq(b64_xxh64(Concat(prompt.text)), 1, _text_and_sample_hash_len - _text_hash_len)

prompt_to_sample_params_hash(prompt, model_key) ==
    LET _target_len == _text_and_sample_hash_len - _text_hash_len
        hash == b64_xxh64(StrDict(prompt_to_only_sample_class_dict(prompt, model_key)))
    IN  IF Len(hash) < _target_len THEN hash \o Pad(_target_len - Len(hash))
        ELSE IF Len(hash) > _target_len THEN SubSeq(hash, 1, _target_len)
        ELSE hash

prompt_to_sample_hash_text(prompt, model_key) ==
    prompt_to_text_hash(prompt) \o prompt_to_sample_params_hash(prompt, model_key)

(***************************************************************************)
(* Requests.  A prompt carries the eleven-minus-one fields the parameter   *)
(* dict reads, its text, and the fields the callers set that the dict does *)
(* not read (logprobs, num_completions).                                   *)
(***************************************************************************)
\* "Once upon a", max_tokens=1, logprobs=5, num_completions=1, echo=False
BasePrompt ==
    [text |-> <<"O", "n", "c", "e", " ", "u", "p", "o", "n", " ", "a">>,
     max_tokens |-> PyInt(1),
     temperature |-> PyFloat(0, 0),
     top_p |-> PyFloat(1, 0),
     presence_penalty |-> PyFloat(0, 0),
     frequency_penalty |-> PyFloat(0, 0),
     add_bos_token |-> PyNone,
     echo |-> PyBool(FALSE),
     add_special_tokens |-> PyBool(TRUE),
     model_internals_request |-> PyNone,
     stop |-> PyNone,
     logprobs |-> PyInt(5),
     num_completions |-> PyInt(1)]

\* the prompts the store is driven with
P1 == BasePrompt
\* the text of P1 with another max_tokens
P2 == [BasePrompt EXCEPT !.max_tokens = PyInt(2)]
\* P1 with another logprobs, a field the parameter dict does not read
P3 == [BasePrompt EXCEPT !.logprobs = PyInt(1)]
\* another text
P4 == [BasePrompt EXCEPT !.text = <<"H", "i">>]

Request(prompt, model_key) == [prompt |-> prompt, model_key |-> model_key]

\* the requests of the sequential runs: two that share a text, one that differs
\* from the first only in logprobs, the first under another model, another text
SeqRequests ==
    {Request(P1, "test-model"), Request(P2, "test-model"), Request(P3, "test-model"),
     Request(P1, "other-model"), Request(P4, "test-model")}

\* a request the runs look up and delete and never insert: the text of P1 with a
\* third max_tokens
P5 == [BasePrompt EXCEPT !.max_tokens = PyInt(3)]
NeverInserted == {Request(P5, "test-model")}

\* objects that are no LmPrompt, handed to delete: the text as a str, and None
NonPrompts == {Request(PyStr("Once upon a"), "test-model"), Request(PyNone, "test-model")}
SeqProbes == SeqRequests \cup NeverInserted

\* the requests of the concurrent runs: two that share a text
ConcRequests == {Request(P1, "test-model"), Request(P2, "test-model")}

Callers == {"c1", "c2"}

\* prompt_to_text_hash and prompt_to_sample_hash_text are pure: the keys of the
\* requests the callers pass are derived once, by the operators above, and looked
\* up from then on
KnownRequests == SeqProbes \cup ConcRequests
text_hashes == [p \in {r.prompt : r \in KnownRequests} |-> prompt_to_text_hash(p)]
sample_hash_texts ==
    [r \in KnownRequests |-> prompt_to_sample_hash_text(r.prompt, r.model_key)]

text_hash_text(prompt) ==
    IF prompt \in DOMAIN text_hashes THEN text_hashes[prompt]
    ELSE prompt_to_text_hash(prompt)

sample_hash_text(prompt, model_key) ==
    IF Request(prompt, model_key) \in DOMAIN sample_hash_texts
    THEN sample_hash_texts[Request(prompt, model_key)]
    ELSE prompt_to_sample_hash_text(prompt, model_key)

\* what an LmPrediction gives the cache: its prompt, its completion text, the
\* bytes of serialize_metad_for_cache() and its class name
Completions == {[completion_text |-> " time", metad_bytes |-> "blobA"],
                [completion_text |-> " day", metad_bytes |-> "blobB"]}

\* the most rows CacheLmPrediction holds in the model
MaxRows == 2

(***************************************************************************)
(* The three tables and the statements run on them.                        *)
(***************************************************************************)
EmptyDb == [text |-> {}, params |-> {}, pred |-> <<>>]

\* INSERT OR IGNORE INTO CacheLmPromptText: text_hash is the PRIMARY KEY
InsertOrIgnoreText(d, text_hash, text) ==
    IF \E r \in d.text : r.text_hash = text_hash THEN d
    ELSE [d EXCEPT !.text = @ \cup {[text_hash |-> text_hash, text |-> text]}]

ParamsRow(text_hash, sample_hash, params) ==
    [text_hash |-> text_hash, sample_hash |-> sample_hash, params |-> params]

\* a variant that replaces the rows of the text: INSERT OR REPLACE on text_hash
InsertOrReplaceParams_by_text_hash(d, text_hash, sample_hash, params) ==
    [d EXCEPT !.params = {r \in @ : r.text_hash # text_hash}
                            \cup {ParamsRow(text_hash, sample_hash, params)}]

\* INSERT OR IGNORE INTO CacheLmPromptSampleParams: sample_hash is the PRIMARY KEY
InsertOrIgnoreParams(d, text_hash, sample_hash, params) ==
    IF \E r \in d.params : r.sample_hash = sample_hash THEN d
    ELSE [d EXCEPT !.params = @ \cup {ParamsRow(text_hash, sample_hash, params)}]

PredictionRow(sample_hash, prediction) ==
    [sample_params |-> sample_hash,
     base_class |-> prediction.class,
     completion_text |-> prediction.completion_text,
     metad_bytes |-> prediction.metad_bytes,
     date_added |-> "now"]

\* a variant that keys the table on sample_params and ignores a second row
InsertPrediction_unique(d, sample_hash, prediction) ==
    IF \E i \in 1..Len(d.pred) : d.pred[i].sample_params = sample_hash THEN d
    ELSE [d EXCEPT !.pred = Append(@, PredictionRow(sample_hash, prediction))]

\* INSERT INTO CacheLmPrediction: the table has no key, the row is appended
InsertPrediction(d, sample_hash, prediction) ==
    [d EXCEPT !.pred = Append(@, PredictionRow(sample_hash, prediction))]

Matches(row, sample_hash) == row.sample_params = sample_hash

\* a variant that removes the first matching row only
DeletePredictions_first_only(d, sample_hash) ==
    IF \E i \in 1..Len(d.pred) : Matches(d.pred[i], sample_hash)
    THEN LET i == CHOOSE i \in 1..Len(d.pred) :
                     /\ Matches(d.pred[i], sample_hash)
                     /\ \A j \in 1..(i - 1) : ~Matches(d.pred[j], sample_hash)
         IN  [d EXCEPT !.pred = SubSeq(@, 1, i - 1) \o SubSeq(@, i + 1, Len(@))]
    ELSE d

\* DELETE FROM CacheLmPrediction WHERE sample_params = ?
DeletePredictions(d, sample_hash) ==
    [d EXCEPT !.pred = SelectSeq(@, LAMBDA row : ~Matches(row, sample_hash))]

\* DELETE FROM CacheLmPromptSampleParams WHERE sample_hash = ?
DeleteParams(d, sample_hash) ==
    [d EXCEPT !.params = {r \in @ : r.sample_hash # sample_hash}]

\* a variant that compares the sample_hash column with the text hash
CountParams_by_sample_hash(d, text_hash) ==
    Cardinality({r \in d.params : r.sample_hash = text_hash})

\* a variant that counts the rows of every text
CountParams_any_text(d, text_hash) == Cardinality(d.params)

\* SELECT COUNT(*) FROM CacheLmPromptSampleParams WHERE text_hash = ?
CountParams(d, text_hash) == Cardinality({r \in d.params : r.text_hash = text_hash})

\* DELETE FROM CacheLmPromptText WHERE text_hash = ?
DeleteText(d, text_hash) == [d EXCEPT !.text = {r \in @ : r.text_hash # text_hash}]

\* SELECT * FROM CacheLmPrediction WHERE sample_params = ?, fetchone(): the first
\* matching row in scan order, 0 when there is none
FirstMatch(d, sample_hash) ==
    IF \E i \in 1..Len(d.pred) : Matches(d.pred[i], sample_hash)
    THEN CHOOSE i \in 1..Len(d.pred) :
            /\ Matches(d.pred[i], sample_hash)
            /\ \A j \in 1..(i - 1) : ~Matches(d.pred[j], sample_hash)
    ELSE 0

\* the rows the SELECT goes through
RowsOf(d, sample_hash) == {i \in 1..Len(d.pred) : Matches(d.pred[i], sample_hash)}
HasPredictionRow(d, sample_hash) == FirstMatch(d, sample_hash) # 0

\* what get_from_cache returns on d: None, or the prediction parse_from_cache is
\* handed (completion_text, prompt, metad_bytes)
None == [kind |-> "None"]

\* a variant that returns the newest matching row
get_from_cache_newest(d, prompt, model_key) ==
    LET sample_hash == sample_hash_text(prompt, model_key)
        hits == {i \in 1..Len(d.pred) : Matches(d.pred[i], sample_hash)}
    IN  IF hits = {} THEN None
        ELSE LET i == CHOOSE i \in hits : \A j \in hits : j <= i
             IN  [kind |-> "prediction",
                  prompt |-> prompt,
                  completion_text |-> d.pred[i].completion_text,
                  metad_bytes |-> d.pred[i].metad_bytes]

get_from_cache(d, prompt, model_key) ==
    LET sample_hash == sample_hash_text(prompt, model_key)
        i == FirstMatch(d, sample_hash)
    IN  IF i = 0 THEN None
        ELSE [kind |-> "prediction",
              prompt |-> prompt,
              completion_text |-> d.pred[i].completion_text,
              metad_bytes |-> d.pred[i].metad_bytes]

(***************************************************************************)
(* The state: the committed tables of the database file, the holder of     *)
(* SQLite's write lock, and each caller's position and locals.             *)
(***************************************************************************)
VARIABLES
    db,        \* the committed rows of the three tables
    writer,    \* the caller whose open transaction holds the write lock, or NoCaller
    pc,        \* each caller's position in the operation it runs
    arg,       \* each caller's operation and its arguments
    tx,        \* each caller's open transaction: the tables as it has written them
    cur,       \* each caller's cursor.rowcount, delete()'s data_deleted, and whether
               \* the cursor holds a SELECT with rows left to fetch (a read lock)
    ret,       \* what each caller's operation returned or raised
    pre,       \* history, kept by the sequential runs: the committed tables when
               \* the caller's operation started
    removed,   \* history: the CacheLmPrediction rows the caller's delete() removed
    hreq,      \* key derivation: the request at hand
    hkeys,     \* key derivation: the keys derived for hreq, once they are
    hwas,      \* key derivation: the request before the last change, and its keys
    hsteps,    \* key derivation: the changes made so far
    disk       \* the cache directory: whether it exists, whether the database file
               \* exists, whether the file holds the three tables

store == <<db, writer, pc, arg, tx, cur, ret, pre, removed>>
hashing == <<hreq, hkeys, hwas, hsteps>>
vars == <<store, hashing, disk>>

NoCaller == "nobody"
NoArg == [op |-> "", prompt |-> BasePrompt, model_key |-> "",
          prediction |-> [completion_text |-> "", metad_bytes |-> "", class |-> ""]]
NoTx == [open |-> FALSE, view |-> EmptyDb]
NoCur == [rowcount |-> -1, data_deleted |-> FALSE, pending |-> FALSE]
Pending == [kind |-> "pending"]
Raised == [kind |-> "raised"]
\* sqlite3.OperationalError: no such table
NoSuchTableError == [kind |-> "raised", error |-> "no such table"]
\* what find_prediction_class(prompt).parse_from_cache(...) raises on bytes it
\* cannot read
ParseError == [kind |-> "raised", error |-> "parse_from_cache"]
\* ValueError("Expected LmPrompt, got ...")
ValueError == [kind |-> "raised", error |-> "ValueError"]
\* FileExistsError of Path.mkdir()
FileExistsError == [kind |-> "raised", error |-> "file exists"]

\* the cache directory and the file lm_cache.db in it
NoDir == [dir |-> FALSE, file |-> FALSE, tables |-> FALSE]
EmptyDir == [dir |-> TRUE, file |-> FALSE, tables |-> FALSE]
DiskReady == [dir |-> TRUE, file |-> TRUE, tables |-> TRUE]

NoKeys == [text_hash |-> <<>>, sample_hash |-> <<>>]

HashIdle ==
    /\ hreq = Request(BasePrompt, "")
    /\ hkeys = NoKeys
    /\ hwas = [request |-> Request(BasePrompt, ""), keys |-> NoKeys]
    /\ hsteps = 0

StoreInit ==
    /\ db = EmptyDb
    /\ writer = NoCaller
    /\ pc = [c \in Callers |-> "idle"]
    /\ arg = [c \in Callers |-> NoArg]
    /\ tx = [c \in Callers |-> NoTx]
    /\ cur = [c \in Callers |-> NoCur]
    /\ ret = [c \in Callers |-> Pending]
    /\ pre = [c \in Callers |-> EmptyDb]
    /\ removed = [c \in Callers |-> 0]

\* the state once SqlBackedCache(lm) is constructed on a fresh cache directory:
\* create_tables() has made the file and its three empty tables
Init == StoreInit /\ HashIdle /\ disk = DiskReady

text_hash_of(c) == text_hash_text(arg[c].prompt)
sample_hash_of(c) == sample_hash_text(arg[c].prompt, arg[c].model_key)
params_of(c) == prompt_to_only_sample_class_dict(arg[c].prompt, arg[c].model_key)

AddPcs == {"add_begin", "add_params", "add_pred"}

\* a commit needs the file to itself: no other connection holds a read lock
NoReader(c) == \A d \in Callers \ {c} : ~cur[d].pending

\* a caller starts an operation: its arguments are bound and nothing is executed yet
Call(c, op, first, prompt, model_key, prediction, history) ==
    /\ pc[c] = "idle"
    /\ pc' = [pc EXCEPT ![c] = first]
    /\ arg' = [arg EXCEPT ![c] = [op |-> op, prompt |-> prompt,
                                  model_key |-> model_key, prediction |-> prediction]]
    /\ pre' = [pre EXCEPT ![c] = IF history THEN db ELSE EmptyDb]
    /\ UNCHANGED <<db, writer, tx, cur, ret, removed, hashing, disk>>

\* SqlBackedCache.add(prediction)
CallAdd(c, requests, history) ==
    \E r \in requests, out \in Completions :
        /\ Len(db.pred) + Cardinality({d \in Callers : pc[d] \in AddPcs}) < MaxRows
        /\ Call(c, "add", "add_begin", r.prompt, r.model_key,
                [completion_text |-> out.completion_text,
                 metad_bytes |-> out.metad_bytes, class |-> "LmPrediction"],
                history)

\* SqlBackedCache.get(prompt)
CallGet(c, requests, history) ==
    \E r \in requests :
        Call(c, "get", "get_select", r.prompt, r.model_key, NoArg.prediction, history)

\* SqlBackedCache.__contains__(prompt)
CallContains(c, requests, history) ==
    \E r \in requests :
        Call(c, "contains", "get_select", r.prompt, r.model_key, NoArg.prediction, history)

\* isinstance(prompt, LmPrompt)
IsLmPrompt(o) == "text" \in DOMAIN o

\* the call returns with the result: no statement is executed
Reject(c, op, prompt, model_key, result, history) ==
    /\ pc[c] = "idle"
    /\ pc' = [pc EXCEPT ![c] = "done"]
    /\ arg' = [arg EXCEPT ![c] = [op |-> op, prompt |-> prompt, model_key |-> model_key,
                                  prediction |-> NoArg.prediction]]
    /\ ret' = [ret EXCEPT ![c] = result]
    /\ pre' = [pre EXCEPT ![c] = IF history THEN db ELSE EmptyDb]
    /\ UNCHANGED <<db, writer, tx, cur, removed, hashing, disk>>

\* a variant that answers False to an object that is no LmPrompt
CallDelete_silent(c, requests, history) ==
    \E r \in requests :
        IF IsLmPrompt(r.prompt)
        THEN Call(c, "delete", "del_begin", r.prompt, r.model_key, NoArg.prediction, history)
        ELSE Reject(c, "delete", r.prompt, r.model_key, [kind |-> "bool", val |-> FALSE],
                    history)

\* SqlBackedCache.delete(prompt)
CallDelete(c, requests, history) ==
    \E r \in requests :
        IF IsLmPrompt(r.prompt)
        THEN Call(c, "delete", "del_begin", r.prompt, r.model_key, NoArg.prediction, history)
        ELSE Reject(c, "delete", r.prompt, r.model_key, ValueError, history)

\* create_from_prompt_text(prompt)
CallCreateText(c, requests, history) ==
    \E r \in requests :
        Call(c, "create_from_prompt_text", "text_insert", r.prompt, "", NoArg.prediction, history)

\* create_from_prompt_sample_params(prompt, model_key)
CallCreateParams(c, requests, history) ==
    \E r \in requests :
        Call(c, "create_from_prompt_sample_params", "text_insert",
             r.prompt, r.model_key, NoArg.prediction, history)

(***************************************************************************)
(* add_prediction_to_cache: BEGIN, three inserts, commit, in one           *)
(* execute_query.  The first insert takes the write lock.                  *)
(***************************************************************************)
AddInsertText(c) ==
    /\ pc[c] = "add_begin"
    /\ disk.tables
    /\ writer = NoCaller
    /\ writer' = c
    /\ tx' = [tx EXCEPT ![c] =
                [open |-> TRUE,
                 view |-> InsertOrIgnoreText(db, text_hash_of(c), arg[c].prompt.text)]]
    /\ cur' = [cur EXCEPT ![c].rowcount =
                 Cardinality(tx'[c].view.text) - Cardinality(db.text)]
    /\ pc' = [pc EXCEPT ![c] = "add_params"]
    /\ UNCHANGED <<db, arg, ret, pre, removed, hashing, disk>>

AddInsertParams(c) ==
    /\ pc[c] = "add_params"
    /\ tx' = [tx EXCEPT ![c].view =
                InsertOrIgnoreParams(@, text_hash_of(c), sample_hash_of(c), params_of(c))]
    /\ cur' = [cur EXCEPT ![c].rowcount =
                 Cardinality(tx'[c].view.params) - Cardinality(tx[c].view.params)]
    /\ pc' = [pc EXCEPT ![c] = "add_pred"]
    /\ UNCHANGED <<db, writer, arg, ret, pre, removed, hashing, disk>>

\* the third insert and conn.commit()
AddInsertPredictionCommit(c) ==
    /\ pc[c] = "add_pred"
    /\ NoReader(c)
    /\ db' = InsertPrediction(tx[c].view, sample_hash_of(c), arg[c].prediction)
    /\ writer' = NoCaller
    /\ tx' = [tx EXCEPT ![c] = NoTx]
    /\ cur' = [cur EXCEPT ![c].rowcount = 1]
    /\ ret' = [ret EXCEPT ![c] = None]
    /\ pc' = [pc EXCEPT ![c] = "done"]
    /\ UNCHANGED <<arg, pre, removed, hashing, disk>>

(***************************************************************************)
(* get_from_cache: one SELECT and fetchone(), outside any transaction.     *)
(***************************************************************************)
\* a variant that takes the row it returns out of the table
GetSelect_consuming(c) ==
    /\ pc[c] = "get_select"
    /\ disk.tables
    /\ LET found == get_from_cache(db, arg[c].prompt, arg[c].model_key)
           i == FirstMatch(db, sample_hash_of(c))
       IN  /\ ret' = [ret EXCEPT ![c] =
                        IF arg[c].op = "contains"
                        THEN [kind |-> "bool", val |-> found # None]
                        ELSE found]
           /\ db' = IF i = 0 THEN db
                    ELSE [db EXCEPT !.pred = SubSeq(@, 1, i - 1) \o SubSeq(@, i + 1, Len(@))]
    /\ pc' = [pc EXCEPT ![c] = "done"]
    /\ UNCHANGED <<writer, arg, tx, cur, pre, removed, hashing, disk>>

GetSelect(c) ==
    /\ pc[c] = "get_select"
    /\ disk.tables
    /\ LET found == get_from_cache(db, arg[c].prompt, arg[c].model_key)
       IN  ret' = [ret EXCEPT ![c] =
                     IF arg[c].op = "contains"
                     THEN [kind |-> "bool", val |-> found # None]
                     ELSE found]
    /\ pc' = [pc EXCEPT ![c] = "done"]
    /\ UNCHANGED <<db, writer, arg, tx, cur, pre, removed, hashing, disk>>

\* the SELECT finds a row and parse_from_cache raises on it, after the `with`
\* block: the exception keeps the frame, its cursor and its connection, and the
\* cursor keeps its read lock when the SELECT has rows left
GetParseRaises(c) ==
    /\ pc[c] = "get_select"
    /\ disk.tables
    /\ HasPredictionRow(db, sample_hash_of(c))
    /\ cur' = [cur EXCEPT ![c].pending = Cardinality(RowsOf(db, sample_hash_of(c))) > 1]
    /\ ret' = [ret EXCEPT ![c] = ParseError]
    /\ pc' = [pc EXCEPT ![c] = "done"]
    /\ UNCHANGED <<db, writer, arg, tx, pre, removed, hashing, disk>>

(***************************************************************************)
(* SqlBackedCache.delete: two DELETEs and a commit, then a COUNT, then a   *)
(* third DELETE and a second commit when the count is 0.                   *)
(***************************************************************************)
\* a variant that does not wait for the write lock: two deletes work on the same
\* committed rows
DeletePredictionRows_unlocked(c) ==
    /\ pc[c] = "del_begin"
    /\ disk.tables
    /\ writer' = c
    /\ tx' = [tx EXCEPT ![c] =
                [open |-> TRUE, view |-> DeletePredictions(db, sample_hash_of(c))]]
    /\ cur' = [cur EXCEPT ![c].rowcount = Len(db.pred) - Len(tx'[c].view.pred)]
    /\ removed' = [removed EXCEPT ![c] = Len(db.pred) - Len(tx'[c].view.pred)]
    /\ pc' = [pc EXCEPT ![c] = "del_params"]
    /\ UNCHANGED <<db, arg, ret, pre, hashing, disk>>

DeletePredictionRows(c) ==
    /\ pc[c] = "del_begin"
    /\ disk.tables
    /\ writer = NoCaller
    /\ writer' = c
    /\ tx' = [tx EXCEPT ![c] =
                [open |-> TRUE, view |-> DeletePredictions(db, sample_hash_of(c))]]
    /\ cur' = [cur EXCEPT ![c].rowcount = Len(db.pred) - Len(tx'[c].view.pred)]
    /\ removed' = [removed EXCEPT ![c] = Len(db.pred) - Len(tx'[c].view.pred)]
    /\ pc' = [pc EXCEPT ![c] = "del_params"]
    /\ UNCHANGED <<db, arg, ret, pre, hashing, disk>>

\* the second DELETE, conn.commit(), and data_deleted = cursor.rowcount > 0
DeleteParamsRowCommit(c) ==
    /\ pc[c] = "del_params"
    /\ NoReader(c)
    /\ LET after == DeleteParams(tx[c].view, sample_hash_of(c))
           rowcount == Cardinality(tx[c].view.params) - Cardinality(after.params)
       IN  /\ db' = after
           /\ cur' = [cur EXCEPT ![c] =
                        [rowcount |-> rowcount, data_deleted |-> rowcount > 0,
                         pending |-> FALSE]]
    /\ writer' = NoCaller
    /\ tx' = [tx EXCEPT ![c] = NoTx]
    /\ pc' = [pc EXCEPT ![c] = "del_count"]
    /\ UNCHANGED <<arg, ret, pre, removed, hashing, disk>>

\* SELECT COUNT(*) of the parameter rows that use the text; the call returns
\* when there is one
DeleteCountUsers(c) ==
    /\ pc[c] = "del_count"
    /\ IF CountParams(db, text_hash_of(c)) = 0
       THEN /\ pc' = [pc EXCEPT ![c] = "del_text"]
            /\ ret' = ret
       ELSE /\ pc' = [pc EXCEPT ![c] = "done"]
            /\ ret' = [ret EXCEPT ![c] = [kind |-> "bool", val |-> cur[c].data_deleted]]
    /\ UNCHANGED <<db, writer, arg, tx, cur, pre, removed, hashing, disk>>

\* DELETE FROM CacheLmPromptText and the second conn.commit()
DeleteTextRowCommit(c) ==
    /\ pc[c] = "del_text"
    /\ writer = NoCaller
    /\ NoReader(c)
    /\ db' = DeleteText(db, text_hash_of(c))
    /\ cur' = [cur EXCEPT ![c].rowcount = Cardinality(db.text) - Cardinality(db'.text)]
    /\ ret' = [ret EXCEPT ![c] = [kind |-> "bool", val |-> cur[c].data_deleted]]
    /\ pc' = [pc EXCEPT ![c] = "done"]
    /\ UNCHANGED <<writer, arg, tx, pre, removed, hashing, disk>>

(***************************************************************************)
(* create_from_prompt_text, and create_from_prompt_sample_params, which    *)
(* calls it first: each INSERT OR IGNORE is an execute_query of its own,   *)
(* committed on its own.                                                   *)
(***************************************************************************)
CreateTextCommit(c) ==
    /\ pc[c] = "text_insert"
    /\ disk.tables
    /\ writer = NoCaller
    /\ NoReader(c)
    /\ db' = InsertOrIgnoreText(db, text_hash_of(c), arg[c].prompt.text)
    /\ cur' = [cur EXCEPT ![c].rowcount = Cardinality(db'.text) - Cardinality(db.text)]
    /\ IF arg[c].op = "create_from_prompt_text"
       THEN /\ pc' = [pc EXCEPT ![c] = "done"]
            /\ ret' = [ret EXCEPT ![c] = [kind |-> "key", val |-> text_hash_of(c)]]
       ELSE /\ pc' = [pc EXCEPT ![c] = "params_insert"]
            /\ ret' = ret
    /\ UNCHANGED <<writer, arg, tx, pre, removed, hashing, disk>>

CreateParamsCommit(c) ==
    /\ pc[c] = "params_insert"
    /\ disk.tables
    /\ writer = NoCaller
    /\ NoReader(c)
    /\ db' = InsertOrIgnoreParams(db, text_hash_of(c), sample_hash_of(c), params_of(c))
    /\ cur' = [cur EXCEPT ![c].rowcount = Cardinality(db'.params) - Cardinality(db.params)]
    /\ ret' = [ret EXCEPT ![c] = [kind |-> "key", val |-> sample_hash_of(c)]]
    /\ pc' = [pc EXCEPT ![c] = "done"]
    /\ UNCHANGED <<writer, arg, tx, pre, removed, hashing, disk>>

(***************************************************************************)
(* create_tables: return when the database file exists; otherwise make the *)
(* cache directory when it is missing, open the file, which creates it     *)
(* empty, and create the three tables in one committed execute_query.      *)
(* add_prediction_to_cache and get_from_cache start with a call of it.     *)
(***************************************************************************)
\* create_tables(), as SqlBackedCache.__init__ and main() call it
CallCreateTables(c) ==
    Call(c, "create_tables", "ct_exists", BasePrompt, "", NoArg.prediction, FALSE)

\* get_from_cache(prompt, lm) from its first line
CallGetFromCache(c, requests) ==
    \E r \in requests :
        Call(c, "get", "ct_exists", r.prompt, r.model_key, NoArg.prediction, FALSE)

\* add_prediction_to_cache(prediction, model_key) from its first line
CallAddPrediction(c, requests) ==
    \E r \in requests, out \in Completions :
        /\ Len(db.pred) + Cardinality({d \in Callers : arg[d].op = "add"}) < MaxRows
        /\ Call(c, "add", "ct_exists", r.prompt, r.model_key,
                [completion_text |-> out.completion_text,
                 metad_bytes |-> out.metad_bytes, class |-> "LmPrediction"],
                FALSE)

\* where the caller of create_tables goes on
AfterCreateTables(c) ==
    CASE arg[c].op = "get" -> "get_select"
      [] arg[c].op = "add" -> "add_begin"
      [] OTHER -> "done"

ReturnFromCreateTables(c) ==
    /\ pc' = [pc EXCEPT ![c] = AfterCreateTables(c)]
    /\ ret' = [ret EXCEPT ![c] = IF arg[c].op = "create_tables" THEN None ELSE @]

\* if cache_path_fn().exists(): return
CreateTablesCheckFile(c) ==
    /\ pc[c] = "ct_exists"
    /\ IF disk.file
       THEN ReturnFromCreateTables(c)
       ELSE pc' = [pc EXCEPT ![c] = "ct_dir"] /\ ret' = ret
    /\ UNCHANGED <<db, writer, arg, tx, cur, pre, removed, hashing, disk>>

\* if not os.path.exists(cache_dir())
CreateTablesCheckDir(c) ==
    /\ pc[c] = "ct_dir"
    /\ pc' = [pc EXCEPT ![c] = IF disk.dir THEN "ct_connect" ELSE "ct_mkdir"]
    /\ UNCHANGED <<db, writer, arg, tx, cur, ret, pre, removed, hashing, disk>>

\* cache_dir().mkdir(), which raises when the directory is there by now
CreateTablesMkdir(c) ==
    /\ pc[c] = "ct_mkdir"
    /\ IF disk.dir
       THEN /\ pc' = [pc EXCEPT ![c] = "done"]
            /\ ret' = [ret EXCEPT ![c] = FileExistsError]
            /\ disk' = disk
       ELSE /\ pc' = [pc EXCEPT ![c] = "ct_connect"]
            /\ ret' = ret
            /\ disk' = [disk EXCEPT !.dir = TRUE]
    /\ UNCHANGED <<db, writer, arg, tx, cur, pre, removed, hashing>>

\* execute_query: sqlite3.connect(cache_path_fn()) creates the file, empty
CreateTablesConnect(c) ==
    /\ pc[c] = "ct_connect"
    /\ disk' = [disk EXCEPT !.file = TRUE]
    /\ pc' = [pc EXCEPT ![c] = "ct_create"]
    /\ UNCHANGED <<db, writer, arg, tx, cur, ret, pre, removed, hashing>>

\* BEGIN, the three CREATE TABLE IF NOT EXISTS, conn.commit()
CreateTablesCommit(c) ==
    /\ pc[c] = "ct_create"
    /\ writer = NoCaller
    /\ NoReader(c)
    /\ disk' = [disk EXCEPT !.tables = TRUE]
    /\ ReturnFromCreateTables(c)
    /\ UNCHANGED <<db, writer, arg, tx, cur, pre, removed, hashing>>

\* the first statement of an operation names a table the file does not hold
FirstStatementPcs == {"add_begin", "get_select", "del_begin", "text_insert", "params_insert"}

NoSuchTable(c) ==
    /\ pc[c] \in FirstStatementPcs
    /\ ~disk.tables
    /\ ret' = [ret EXCEPT ![c] = NoSuchTableError]
    /\ pc' = [pc EXCEPT ![c] = "done"]
    /\ UNCHANGED <<db, writer, arg, tx, cur, pre, removed, hashing, disk>>

(***************************************************************************)
(* A statement or a commit fails (disk full, "database is locked" after    *)
(* the timeout): the exception leaves the `with conn` block, which rolls   *)
(* the open transaction back, and reaches the caller.  What was committed  *)
(* before stays.                                                           *)
(***************************************************************************)
\* a variant in which leaving the block commits what the transaction has written
Fail_commits(c) ==
    /\ pc[c] \notin {"idle", "done"}
    /\ db' = IF tx[c].open THEN tx[c].view ELSE db
    /\ writer' = IF writer = c THEN NoCaller ELSE writer
    /\ tx' = [tx EXCEPT ![c] = NoTx]
    /\ ret' = [ret EXCEPT ![c] = Raised]
    /\ pc' = [pc EXCEPT ![c] = "done"]
    /\ UNCHANGED <<arg, cur, pre, removed, hashing, disk>>

\* a variant in which a statement that finds the file locked retries without end
\* (a busy handler with no timeout) and never raises
Fail_retries(c) ==
    /\ pc[c] \notin {"idle", "done"}
    /\ UNCHANGED vars

Fail(c) ==
    /\ pc[c] \notin {"idle", "done"}
    /\ writer' = IF writer = c THEN NoCaller ELSE writer
    /\ tx' = [tx EXCEPT ![c] = NoTx]
    /\ ret' = [ret EXCEPT ![c] = Raised]
    /\ pc' = [pc EXCEPT ![c] = "done"]
    /\ UNCHANGED <<db, arg, cur, pre, removed, hashing, disk>>

\* the caller takes the result; its locals are gone
Return(c) ==
    /\ pc[c] = "done"
    /\ pc' = [pc EXCEPT ![c] = "idle"]
    /\ arg' = [arg EXCEPT ![c] = NoArg]
    /\ cur' = [cur EXCEPT ![c] = NoCur]
    /\ ret' = [ret EXCEPT ![c] = Pending]
    /\ pre' = [pre EXCEPT ![c] = EmptyDb]
    /\ removed' = [removed EXCEPT ![c] = 0]
    /\ UNCHANGED <<db, writer, tx, hashing, disk>>

\* the steps inside an operation
Proceed(c) ==
    \/ AddInsertText(c)
    \/ AddInsertParams(c)
    \/ AddInsertPredictionCommit(c)
    \/ GetSelect(c)
    \/ GetParseRaises(c)
    \/ DeletePredictionRows(c)
    \/ DeleteParamsRowCommit(c)
    \/ DeleteCountUsers(c)
    \/ DeleteTextRowCommit(c)
    \/ Fail(c)
    \/ Return(c)

\* concurrent callers of the facade: any caller takes its next step
Next ==
    \E c \in Callers :
        \/ CallAdd(c, ConcRequests, FALSE)
        \/ CallGet(c, ConcRequests, FALSE)
        \/ CallDelete(c, ConcRequests, FALSE)
        \/ Proceed(c)

Spec == Init /\ [][Next]_vars

\* one operation at a time, of the facade or of the module's functions
SeqCaller == "c1"

SeqNext ==
    \/ CallAdd(SeqCaller, SeqRequests, TRUE)
    \/ CallGet(SeqCaller, SeqProbes, TRUE)
    \/ CallContains(SeqCaller, SeqProbes, TRUE)
    \/ CallDelete(SeqCaller, SeqProbes \cup NonPrompts, TRUE)
    \/ CallCreateText(SeqCaller, SeqRequests, TRUE)
    \/ CallCreateParams(SeqCaller, SeqRequests, TRUE)
    \/ CreateTextCommit(SeqCaller)
    \/ CreateParamsCommit(SeqCaller)
    \/ Proceed(SeqCaller)

SeqSpec == Init /\ [][SeqNext]_vars

(***************************************************************************)
(* First use: the cache directory holds no database file, and callers      *)
(* (threads or processes) run create_tables, get_from_cache and            *)
(* add_prediction_to_cache on it.                                          *)
(***************************************************************************)
FreshRequests == {Request(P1, "test-model")}

FreshInit == StoreInit /\ HashIdle /\ disk \in {NoDir, EmptyDir}

FreshNext ==
    \E c \in Callers :
        \/ CallCreateTables(c)
        \/ CallGetFromCache(c, FreshRequests)
        \/ CallAddPrediction(c, FreshRequests)
        \/ CreateTablesCheckFile(c)
        \/ CreateTablesCheckDir(c)
        \/ CreateTablesMkdir(c)
        \/ CreateTablesConnect(c)
        \/ CreateTablesCommit(c)
        \/ NoSuchTable(c)
        \/ GetSelect(c)
        \/ GetParseRaises(c)
        \/ AddInsertText(c)
        \/ AddInsertParams(c)
        \/ AddInsertPredictionCommit(c)
        \/ Fail(c)
        \/ Return(c)

FreshSpec == FreshInit /\ [][FreshNext]_vars

(***************************************************************************)
(* Deletes only: the store holds recorded requests, and each caller runs   *)
(* one delete, so that no add runs while the deletes do.                   *)
(***************************************************************************)
\* the tables add_prediction_to_cache leaves when it runs on d
Recorded(d, r, out) ==
    LET text_hash == prompt_to_text_hash(r.prompt)
        sample_hash == prompt_to_sample_hash_text(r.prompt, r.model_key)
    IN  InsertPrediction(
            InsertOrIgnoreParams(
                InsertOrIgnoreText(d, text_hash, r.prompt.text),
                text_hash, sample_hash,
                prompt_to_only_sample_class_dict(r.prompt, r.model_key)),
            sample_hash,
            [completion_text |-> out.completion_text,
             metad_bytes |-> out.metad_bytes, class |-> "LmPrediction"])

\* one request recorded once, recorded twice, and two requests of one text
RecordedStores ==
    LET r1 == Request(P1, "test-model")
        r2 == Request(P2, "test-model")
        out == CHOOSE o \in Completions : TRUE
        once == Recorded(EmptyDb, r1, out)
    IN  {once, Recorded(once, r1, out), Recorded(once, r2, out)}

DeleteInit ==
    /\ db \in RecordedStores
    /\ writer = NoCaller
    /\ pc = [c \in Callers |-> "idle"]
    /\ arg = [c \in Callers |-> NoArg]
    /\ tx = [c \in Callers |-> NoTx]
    /\ cur = [c \in Callers |-> NoCur]
    /\ ret = [c \in Callers |-> Pending]
    /\ pre = [c \in Callers |-> EmptyDb]
    /\ removed = [c \in Callers |-> 0]
    /\ HashIdle
    /\ disk = DiskReady

DeleteNext ==
    \E c \in Callers :
        \/ CallDelete(c, ConcRequests, FALSE)
        \/ DeletePredictionRows(c)
        \/ DeleteParamsRowCommit(c)
        \/ DeleteCountUsers(c)
        \/ DeleteTextRowCommit(c)
        \/ Fail(c)

DeleteSpec == DeleteInit /\ [][DeleteNext]_vars

(***************************************************************************)
(* One recorded request and the others: add has completed for a request,   *)
(* which is looked up and never deleted, while a caller adds and deletes   *)
(* the other requests.                                                     *)
(***************************************************************************)
KeptRequest == Request(P1, "test-model")

\* the text of the kept request with another max_tokens, with another logprobs,
\* under another model, and another text
OtherRequests == SeqRequests \ {KeptRequest}

KeptInit ==
    /\ \E out \in Completions : db = Recorded(EmptyDb, KeptRequest, out)
    /\ writer = NoCaller
    /\ pc = [c \in Callers |-> "idle"]
    /\ arg = [c \in Callers |-> NoArg]
    /\ tx = [c \in Callers |-> NoTx]
    /\ cur = [c \in Callers |-> NoCur]
    /\ ret = [c \in Callers |-> Pending]
    /\ pre = [c \in Callers |-> EmptyDb]
    /\ removed = [c \in Callers |-> 0]
    /\ HashIdle
    /\ disk = DiskReady

KeptNext ==
    \/ CallAdd(SeqCaller, OtherRequests, FALSE)
    \/ CallDelete(SeqCaller, OtherRequests, FALSE)
    \/ CallGet(SeqCaller, {KeptRequest}, FALSE)
    \/ Proceed(SeqCaller)

KeptSpec == KeptInit /\ [][KeptNext]_vars

(***************************************************************************)
(* The facade's add and delete, one call after the other, each running to  *)
(* its end, from an empty store.                                           *)
(***************************************************************************)
FacadeNext ==
    \/ CallAdd(SeqCaller, SeqRequests, TRUE)
    \/ CallDelete(SeqCaller, SeqProbes, TRUE)
    \/ AddInsertText(SeqCaller)
    \/ AddInsertParams(SeqCaller)
    \/ AddInsertPredictionCommit(SeqCaller)
    \/ DeletePredictionRows(SeqCaller)
    \/ DeleteParamsRowCommit(SeqCaller)
    \/ DeleteCountUsers(SeqCaller)
    \/ DeleteTextRowCommit(SeqCaller)
    \/ Return(SeqCaller)

FacadeSpec == Init /\ [][FacadeNext]_vars

(***************************************************************************)
(* Concurrent callers under fair scheduling.  Each caller is a thread or a *)
(* process that keeps running: the statement it stands at is executed      *)
(* when the store lets it, and sqlite3.connect's timeout (the default, 5   *)
(* seconds) makes a statement that waits for a lock raise "database is     *)
(* locked".  Nothing makes a caller drop a result or start a further call. *)
(***************************************************************************)
LiveRequests == {Request(P1, "test-model")}

\* the statements that take the write lock, and those that commit
WriteLockPcs == {"add_begin", "del_begin", "del_text"}
CommitPcs == {"add_pred", "del_params", "del_text"}

\* c stands at a statement that needs a lock d's connection holds
WaitsFor(c, d) ==
    /\ c # d
    /\ \/ pc[c] \in WriteLockPcs /\ writer = d
       \/ pc[c] \in CommitPcs /\ cur[d].pending

Waits(c) == \E d \in Callers : WaitsFor(c, d)

\* the wait ends with sqlite3.OperationalError after the timeout
Timeout(c) == Waits(c) /\ Fail(c)

\* the statements of the operations
Statement(c) ==
    \/ AddInsertText(c)
    \/ AddInsertParams(c)
    \/ AddInsertPredictionCommit(c)
    \/ GetSelect(c)
    \/ GetParseRaises(c)
    \/ DeletePredictionRows(c)
    \/ DeleteParamsRowCommit(c)
    \/ DeleteCountUsers(c)
    \/ DeleteTextRowCommit(c)

LiveNext ==
    \E c \in Callers :
        \/ CallAdd(c, LiveRequests, FALSE)
        \/ CallGet(c, LiveRequests, FALSE)
        \/ CallDelete(c, LiveRequests, FALSE)
        \/ Proceed(c)

LiveSpec ==
    /\ Init
    /\ [][LiveNext]_vars
    /\ \A c \in Callers : WF_vars(Statement(c) \/ Timeout(c))

(***************************************************************************)
(* Key derivation on its own: a request is drawn, its keys are derived,    *)
(* one field of the request is changed and the keys are derived again.     *)
(***************************************************************************)
Alphabet ==
    <<"a", "b", "c", "d", "e", "f", "g", "h", "i", "j", "k", "l", "m",
      "n", "o", "p", "q", "r", "s", "t", "u", "v", "w", "x", "y", "z">>
Text(n) == SubSeq(Alphabet, 1, n)
HashTexts == {Text(0), Text(5), Text(11), Text(21)}

\* the values a field of the request takes
FieldValues ==
    [max_tokens |-> {PyInt(1), PyInt(2), PyNone},
     temperature |-> {PyFloat(0, 0), PyFloat(0, 7)},
     top_p |-> {PyFloat(1, 0), PyFloat(0, 9)},
     presence_penalty |-> {PyFloat(0, 0), PyFloat(0, 5)},
     frequency_penalty |-> {PyFloat(0, 0), PyFloat(0, 5)},
     add_bos_token |-> {PyNone, PyBool(TRUE), PyBool(FALSE)},
     echo |-> {PyBool(FALSE), PyBool(TRUE)},
     add_special_tokens |-> {PyBool(TRUE), PyBool(FALSE)},
     model_internals_request |-> {PyNone, PyObj("hidden_states"), PyObj("attentions")},
     stop |-> {PyNone, PyList(<<"a">>), PyList(<<"a", "b">>)},
     logprobs |-> {PyInt(5), PyInt(1)},
     num_completions |-> {PyInt(1), PyInt(2)}]

HashModels == {"test-model", "other-model"}

\* the most changes made to a drawn request
MaxChanges == 1

HashKeys(r) ==
    [text_hash |-> prompt_to_text_hash(r.prompt),
     sample_hash |-> prompt_to_sample_hash_text(r.prompt, r.model_key)]

HashInit ==
    /\ StoreInit
    /\ disk = DiskReady
    /\ \E t \in HashTexts,
          a \in FieldValues.add_bos_token,
          i \in FieldValues.model_internals_request,
          st \in FieldValues.stop :
            hreq = Request([BasePrompt EXCEPT !.text = t, !.add_bos_token = a,
                                              !.model_internals_request = i, !.stop = st],
                           "test-model")
    /\ hkeys = NoKeys
    /\ hwas = [request |-> Request(BasePrompt, ""), keys |-> NoKeys]
    /\ hsteps = 0

\* prompt_to_text_hash and prompt_to_sample_hash_text are applied to the request
DeriveKeys ==
    /\ hkeys = NoKeys
    /\ hkeys' = HashKeys(hreq)
    /\ UNCHANGED <<store, hreq, hwas, hsteps, disk>>

\* one field of the prompt takes another value
ChangeField ==
    /\ hkeys # NoKeys
    /\ hsteps < MaxChanges
    /\ \E f \in DOMAIN FieldValues : \E v \in FieldValues[f] :
          /\ hreq.prompt[f] # v
          /\ hreq' = [hreq EXCEPT !.prompt[f] = v]
    /\ hwas' = [request |-> hreq, keys |-> hkeys]
    /\ hkeys' = NoKeys
    /\ hsteps' = hsteps + 1
    /\ UNCHANGED <<store, disk>>

\* the request goes to another model
ChangeModel ==
    /\ hkeys # NoKeys
    /\ hsteps < MaxChanges
    /\ \E m \in HashModels :
          /\ hreq.model_key # m
          /\ hreq' = [hreq EXCEPT !.model_key = m]
    /\ hwas' = [request |-> hreq, keys |-> hkeys]
    /\ hkeys' = NoKeys
    /\ hsteps' = hsteps + 1
    /\ UNCHANGED <<store, disk>>

HashNext == DeriveKeys \/ ChangeField \/ ChangeModel

HashSpec == HashInit /\ [][HashNext]_vars

(***************************************************************************)
(* What the claims speak of.                                               *)
(***************************************************************************)
Completed(c, op) == pc[c] = "done" /\ arg[c].op = op /\ ret[c].kind # "raised"
Failed(c, op) == pc[c] = "done" /\ arg[c].op = op /\ ret[c].kind = "raised"
RequestOf(c) == Request(arg[c].prompt, arg[c].model_key)
KeyOf(r) == prompt_to_sample_hash_text(r.prompt, r.model_key)

HasTextRow(d, text_hash) == \E t \in d.text : t.text_hash = text_hash
HasParamsRow(d, sample_hash) == \E r \in d.params : r.sample_hash = sample_hash

\* the lookup of the caller's own request on the committed tables
LookupOwn(c) == get_from_cache(db, arg[c].prompt, arg[c].model_key)

SamePrediction(found, completion_text, metad_bytes) ==
    /\ found.kind = "prediction"
    /\ found.completion_text = completion_text
    /\ found.metad_bytes = metad_bytes

(***************************************************************************)
(* C1, as stated: right after add(prediction) has completed, the lookup of *)
(* the prediction's request returns a record whose completion_text and     *)
(* metadata bytes are those of the prediction just recorded.               *)
(***************************************************************************)
C1_RoundTripAlways ==
    \A c \in Callers :
        Completed(c, "add") =>
            SamePrediction(LookupOwn(c), arg[c].prediction.completion_text,
                           arg[c].prediction.metad_bytes)

(***************************************************************************)
(* C1, amended: right after add(prediction) has completed, the lookup of   *)
(* the prediction's request returns a record, never absent; the record     *)
(* carries the completion_text and metadata bytes of the prediction just   *)
(* recorded when CacheLmPrediction held no row with that sample_hash       *)
(* before the call, and those of the oldest such row otherwise.            *)
(***************************************************************************)
C1_RoundTripOldestRow ==
    \A c \in Callers :
        Completed(c, "add") =>
            LET before == FirstMatch(pre[c], sample_hash_of(c))
            IN  IF before = 0
                THEN SamePrediction(LookupOwn(c), arg[c].prediction.completion_text,
                                    arg[c].prediction.metad_bytes)
                ELSE SamePrediction(LookupOwn(c), pre[c].pred[before].completion_text,
                                    pre[c].pred[before].metad_bytes)

\* an add has completed in a table that held another request's row and none of its own
C1_Witness ==
    \E c \in Callers :
        /\ Completed(c, "add")
        /\ Len(pre[c].pred) = 1
        /\ FirstMatch(pre[c], sample_hash_of(c)) = 0
        /\ LookupOwn(c).kind = "prediction"

(***************************************************************************)
(* C2: in every committed state, under every interleaving of add and       *)
(* delete calls, each CacheLmPromptSampleParams row's text_hash is the key *)
(* of a CacheLmPromptText row and each CacheLmPrediction row's             *)
(* sample_params is the key of a CacheLmPromptSampleParams row.            *)
(***************************************************************************)
C2_ReferentialConsistency ==
    /\ \A r \in db.params : HasTextRow(db, r.text_hash)
    /\ \A i \in 1..Len(db.pred) : HasParamsRow(db, db.pred[i].sample_params)

(***************************************************************************)
(* C3: delete is one atomic unit: the committed tables never change while  *)
(* a delete call stands between its statements, neither by a commit of its *)
(* own that leaves statements of the call still to run, nor by a commit of *)
(* another caller.                                                         *)
(***************************************************************************)
InsideDelete == {"del_params", "del_count", "del_text"}

C3_DeleteIsAtomic ==
    [][db' # db => \A c \in Callers : pc[c] \notin InsideDelete /\ pc'[c] \notin InsideDelete]_vars

(***************************************************************************)
(* C4: add is all or nothing and its failure is visible: when one of its   *)
(* statements fails the call raises and the three tables are those of      *)
(* before the call; when it completes, the PromptText row, the             *)
(* SampleParameterSet row and a PredictionRecord row of the prediction are *)
(* all present.                                                            *)
(***************************************************************************)
C4_AddAllOrNothing ==
    \A c \in Callers :
        /\ Failed(c, "add") => db = pre[c]
        /\ Completed(c, "add") =>
              /\ ret[c] = None
              /\ HasTextRow(db, text_hash_of(c))
              /\ HasParamsRow(db, sample_hash_of(c))
              /\ \E i \in 1..Len(db.pred) :
                    db.pred[i] = PredictionRow(sample_hash_of(c), arg[c].prediction)
        /\ (pc[c] \in AddPcs => db = pre[c])

\* an add has raised after an insert of its transaction had added a row
C4_Witness ==
    \E c \in Callers :
        /\ Failed(c, "add")
        /\ cur[c].rowcount = 1
        /\ db = pre[c]

C7_DeleteThenLookupAbsent ==
    \A c \in Callers :
        (Completed(c, "delete") /\ ret[c].val) => LookupOwn(c) = None

\* a delete that removed two rows has returned true
C7_Witness ==
    \E c \in Callers :
        /\ Completed(c, "delete")
        /\ ret[c].val
        /\ removed[c] >= 2
        /\ LookupOwn(c) = None

(***************************************************************************)
(* C8: orphan cleanup.  When delete(r) has completed and another request   *)
(* of the same text with other sample parameters (another sample_hash) was *)
(* recorded before the call, the PromptText row is still there and the     *)
(* other request is retrieved as before; when no SampleParameterSet row of *)
(* the text is left, the PromptText row is gone.                           *)
(***************************************************************************)
SharesText(r, c) ==
    /\ prompt_to_text_hash(r.prompt) = text_hash_of(c)
    /\ KeyOf(r) # sample_hash_of(c)

C8_OrphanCleanup ==
    \A c \in Callers :
        Completed(c, "delete") =>
            /\ \A r \in SeqProbes :
                  (SharesText(r, c) /\ HasParamsRow(pre[c], KeyOf(r))
                     /\ HasPredictionRow(pre[c], KeyOf(r))) =>
                      /\ HasTextRow(db, text_hash_of(c))
                      /\ get_from_cache(db, r.prompt, r.model_key)
                           = get_from_cache(pre[c], r.prompt, r.model_key)
                      /\ get_from_cache(db, r.prompt, r.model_key) # None
            /\ (\A row \in db.params : row.text_hash # text_hash_of(c))
                  => ~HasTextRow(db, text_hash_of(c))

\* one of two recorded requests of a text has been deleted, the other is retrieved
C8_Witness ==
    \E c \in Callers :
        /\ Completed(c, "delete")
        /\ ret[c].val
        /\ \E r \in SeqProbes :
              /\ SharesText(r, c)
              /\ get_from_cache(db, r.prompt, r.model_key) # None
        /\ HasTextRow(db, text_hash_of(c))

(***************************************************************************)
(* C9: no conflation: when add has recorded a result for a request, the    *)
(* lookup of any request that differs from it in a field (the text, the    *)
(* model, or a parameter the request carries, logprobs and num_completions *)
(* included) does not return the row just recorded.                        *)
(***************************************************************************)
C9_NoConflation ==
    \A c \in Callers :
        Completed(c, "add") =>
            \A r \in SeqProbes :
                r # RequestOf(c) => FirstMatch(db, KeyOf(r)) # Len(db.pred)

(***************************************************************************)
(* C10: for a fixed prompt text, when exactly one of the eleven parameters *)
(* of the parameter dict (the model identity, max_tokens, temperature,     *)
(* top_p, the two penalties, add_bos_token as a string, echo,              *)
(* add_special_tokens, the has-internals-request flag, stop as a string)   *)
(* takes another value, the sample key changes and the text key, which is  *)
(* its first 32 characters, stays.                                         *)
(***************************************************************************)
DictOf(r) == prompt_to_only_sample_class_dict(r.prompt, r.model_key)

ChangedColumns(r1, r2) ==
    {i \in 1..Len(ParamColumns) : DictOf(r1)[ParamColumns[i]] # DictOf(r2)[ParamColumns[i]]}

BothDerived == hsteps > 0 /\ hkeys # NoKeys

C10_OneParameterChangesSampleKey ==
    (BothDerived /\ Cardinality(ChangedColumns(hwas.request, hreq)) = 1) =>
        /\ hkeys.sample_hash # hwas.keys.sample_hash
        /\ hkeys.text_hash = hwas.keys.text_hash
        /\ SubSeq(hkeys.sample_hash, 1, _text_hash_len) = hwas.keys.text_hash

\* the stop list of a request with a text longer than the key's text part has changed
C10_Witness ==
    /\ BothDerived
    /\ ChangedColumns(hwas.request, hreq) = {Len(ParamColumns)}
    /\ Len(hreq.prompt.text) > 20
    /\ hkeys.sample_hash # hwas.keys.sample_hash

(***************************************************************************)
(* C11: insert-if-absent keeps keys unique and rows immutable.  In every   *)
(* state there is at most one CacheLmPromptText row per text_hash and at   *)
(* most one CacheLmPromptSampleParams row per sample_hash; a completed     *)
(* create_from_prompt_text, create_from_prompt_sample_params or add leaves *)
(* every row that existed before the call as it was; a completed           *)
(* create_from_prompt_sample_params returns the sample key of its input,   *)
(* leaves the row of that key in place, and changes no table when the row  *)
(* was there before the call: the call on a key that is there completes as *)
(* a no-op.                                                                *)
(***************************************************************************)
UpsertOps == {"create_from_prompt_text", "create_from_prompt_sample_params", "add"}

IsPrefix(s, t) == Len(s) <= Len(t) /\ SubSeq(t, 1, Len(s)) = s

AddCommits(c) == pc[c] = "add_pred" /\ pc'[c] = "done" /\ ret'[c].kind # "raised"
DeleteCommits(c) == pc[c] = "del_params" /\ pc'[c] = "del_count"

C12_AddKeepsMultiplicity ==
    [][/\ \A c \in Callers :
             AddCommits(c) =>
                /\ db'.pred = Append(db.pred, PredictionRow(sample_hash_of(c), arg[c].prediction))
                /\ Cardinality(RowsOf(db', sample_hash_of(c)))
                     = Cardinality(RowsOf(db, sample_hash_of(c))) + 1
                /\ \A r \in ConcRequests :
                      KeyOf(r) # sample_hash_of(c) =>
                          Cardinality(RowsOf(db', KeyOf(r))) = Cardinality(RowsOf(db, KeyOf(r)))
                /\ LET found == get_from_cache(db', arg[c].prompt, arg[c].model_key)
                   IN  \E i \in RowsOf(db', sample_hash_of(c)) :
                          SamePrediction(found, db'.pred[i].completion_text,
                                         db'.pred[i].metad_bytes)
       /\ db'.pred # db.pred => \E c \in Callers : AddCommits(c) \/ DeleteCommits(c)
      ]_vars

\* two callers have completed an add of one request with two predictions: the key
\* has two rows and the lookup returns the first
C12_Witness ==
    \E c, d \in Callers :
        /\ c # d
        /\ Completed(c, "add") /\ Completed(d, "add")
        /\ RequestOf(c) = RequestOf(d)
        /\ arg[c].prediction # arg[d].prediction
        /\ Cardinality(RowsOf(db, sample_hash_of(c))) = 2
        /\ SamePrediction(LookupOwn(c), db.pred[1].completion_text, db.pred[1].metad_bytes)

(***************************************************************************)
(* C13: create_tables establishes the schema.  Once a call of              *)
(* create_tables has returned, also while another caller initializes the   *)
(* same store and also after an earlier call stopped once the file was     *)
(* made, the file holds the three tables, and the statement that follows   *)
(* does not fail for a missing table.                                      *)
(***************************************************************************)
PastCreateTables(c) ==
    \/ pc[c] \in {"get_select", "add_begin"}
    \/ Completed(c, "create_tables")

C13_CreateTablesEstablishesSchema ==
    \A c \in Callers :
        /\ PastCreateTables(c) => disk.tables
        /\ ret[c] # NoSuchTableError

(***************************************************************************)
(* C14: keys have fixed width.  For every text, the empty one and the ones *)
(* shorter than the key included, prompt_to_text_hash is 32 characters     *)
(* long; for every request and model, prompt_to_sample_hash_text is 43     *)
(* characters long, and its first 32 characters are the text key.          *)
(***************************************************************************)
C14_KeysHaveFixedWidth ==
    hkeys # NoKeys =>
        /\ Len(hkeys.text_hash) = _text_hash_len
        /\ Len(hkeys.sample_hash) = _text_and_sample_hash_len
        /\ SubSeq(hkeys.sample_hash, 1, _text_hash_len) = hkeys.text_hash
        /\ hkeys.text_hash = prompt_to_text_hash(hreq.prompt)

\* the keys of a request with the empty text, changed once, are derived
C14_Witness ==
    /\ BothDerived
    /\ hreq.prompt.text = <<>>
    /\ Len(hkeys.text_hash) = 32
    /\ Len(hkeys.sample_hash) = 43

(***************************************************************************)
(* C15: a lookup miss is a value and the lookup is read-only.  A get of a  *)
(* request that has no CacheLmPrediction row returns None and a contains   *)
(* of it returns false, the call completing as it does on a hit; a hit     *)
(* returns a record and true; and every completed get or contains, hit or  *)
(* miss, leaves the three tables as they were before the call.             *)
(***************************************************************************)
C15_LookupMissIsAValueAndReadOnly ==
    \A c \in Callers :
        /\ Completed(c, "get") =>
              /\ db = pre[c]
              /\ (ret[c] = None <=> ~HasPredictionRow(pre[c], sample_hash_of(c)))
              /\ ret[c].kind \in {"None", "prediction"}
        /\ Completed(c, "contains") =>
              /\ db = pre[c]
              /\ ret[c] = [kind |-> "bool",
                           val |-> HasPredictionRow(pre[c], sample_hash_of(c))]
        /\ (pc[c] = "get_select" => db = pre[c])

\* a get of a request without a row has returned None from a table that holds the
\* row of another request of the same text
C15_Witness ==
    \E c \in Callers :
        /\ Completed(c, "get")
        /\ ret[c] = None
        /\ \E r \in SeqRequests :
              /\ SharesText(r, c)
              /\ HasPredictionRow(db, KeyOf(r))
        /\ db = pre[c]

(***************************************************************************)
(* C16: malformed delete input is rejected without effect.  A delete that  *)
(* is handed an object that is no LmPrompt raises ValueError before any    *)
(* statement is executed: no statement of delete ever runs on such an      *)
(* object, no transaction is opened, and the three tables are those of     *)
(* before the call.                                                        *)
(***************************************************************************)
DeletePcs == {"del_begin", "del_params", "del_count", "del_text"}

C16_MalformedDeleteRejected ==
    \A c \in Callers :
        /\ pc[c] \in DeletePcs => IsLmPrompt(arg[c].prompt)
        /\ (pc[c] = "done" /\ arg[c].op = "delete" /\ ~IsLmPrompt(arg[c].prompt)) =>
              /\ ret[c] = ValueError
              /\ db = pre[c]
              /\ cur[c] = NoCur
              /\ tx[c] = NoTx
              /\ writer # c

\* delete has raised on the text handed as a str while the table holds the row of
\* the prompt of that text
C16_Witness ==
    \E c \in Callers :
        /\ pc[c] = "done"
        /\ arg[c].op = "delete"
        /\ arg[c].prompt = PyStr("Once upon a")
        /\ ret[c] = ValueError
        /\ HasPredictionRow(db, KeyOf(Request(P1, "test-model")))
        /\ db = pre[c]

(***************************************************************************)
(* C17: no double delete.  When two callers have each run one delete of    *)
(* the same recorded request, in any interleaving and with no add in       *)
(* between, and both calls have returned, exactly one of them has returned *)
(* True and the other False, and neither CacheLmPrediction nor             *)
(* CacheLmPromptSampleParams holds a row of the request.                   *)
(***************************************************************************)
C17_NoDoubleDelete ==
    \A c, d \in Callers :
        (c # d /\ Completed(c, "delete") /\ Completed(d, "delete")
             /\ RequestOf(c) = RequestOf(d)
             /\ RequestOf(c) = Request(P1, "test-model")) =>
            /\ ret[c].val # ret[d].val
            /\ removed[c] + removed[d] > 0
            /\ ~HasPredictionRow(db, sample_hash_of(c))
            /\ ~HasParamsRow(db, sample_hash_of(c))

\* both deletes of the request that was recorded twice have returned; the one that
\* returned True removed the two rows
C17_Witness ==
    \E c, d \in Callers :
        /\ c # d
        /\ Completed(c, "delete") /\ Completed(d, "delete")
        /\ RequestOf(c) = RequestOf(d)
        /\ ret[c].val /\ ~ret[d].val
        /\ removed[c] = 2
        /\ db.pred = <<>>

(***************************************************************************)
(* C18: a cached result persists until it is itself deleted.  Once add has *)
(* completed for a request under a model, and as long as no delete of that *)
(* request under that model is executed, its lookup returns a record in    *)
(* every state, whatever adds and deletes are made for other requests: the *)
(* same text with another parameter, the same request under another model. *)
(***************************************************************************)
C18_ResultPersists ==
    /\ get_from_cache(db, KeptRequest.prompt, KeptRequest.model_key) # None
    /\ \A c \in Callers : Completed(c, "get") => ret[c].kind = "prediction"

(***************************************************************************)
(* C19: no orphan rows after facade operations.  Between the calls of a    *)
(* sequence of add and delete calls that each ran to its end, from an      *)
(* empty store, every CacheLmPromptText row is the text of a               *)
(* CacheLmPromptSampleParams row, and every CacheLmPromptSampleParams row  *)
(* is the key of a CacheLmPrediction row.                                  *)
(***************************************************************************)
BetweenCalls == \A c \in Callers : pc[c] \in {"idle", "done"}

C19_NoOrphanRows ==
    BetweenCalls =>
        /\ \A t \in db.text : \E r \in db.params : r.text_hash = t.text_hash
        /\ \A r \in db.params : HasPredictionRow(db, r.sample_hash)

\* a delete has removed the rows of one text, its text row included, and the rows
\* of another text are left
C19_Witness ==
    \E c \in Callers :
        /\ Completed(c, "delete")
        /\ ret[c].val
        /\ HasTextRow(pre[c], text_hash_of(c))
        /\ ~HasTextRow(db, text_hash_of(c))
        /\ db.text # {}

(***************************************************************************)
(* C20: scoped transactions.  Whenever an operation has returned or        *)
(* raised, on every exit path, the caller has no open transaction, does    *)
(* not hold the write lock, and its connection holds no read lock, so that *)
(* it cannot keep a later writer from committing.                          *)
(***************************************************************************)
C20_ScopedTransactions ==
    \A c \in Callers :
        pc[c] \in {"idle", "done"} =>
            /\ tx[c] = NoTx
            /\ writer # c
            /\ ~cur[c].pending

(***************************************************************************)
(* C21: every operation finishes.  With the store serializing writers and  *)
(* every caller scheduled fairly, each add, delete and get call that has   *)
(* started, whatever calls run beside it, reaches its end, where it has    *)
(* returned or raised; and in no reachable state do two callers each wait  *)
(* for a lock the other holds.                                             *)
(***************************************************************************)
Running(c) == pc[c] \notin {"idle", "done"}

NoMutualWait == \A c, d \in Callers : ~(WaitsFor(c, d) /\ WaitsFor(d, c))

C21_EveryCallFinishes ==
    /\ []NoMutualWait
    /\ \A c \in Callers : Running(c) ~> (pc[c] = "done")

\* a writer stands at its commit, holding the write lock, behind the read lock
\* that another caller's get has left when it raised
C21_Witness ==
    \E c, d \in Callers :
        /\ WaitsFor(c, d)
        /\ pc[c] \in CommitPcs
        /\ writer = c
        /\ pc[d] = "done"
        /\ arg[d].op = "get"
=============================================================================
